---- MODULE Spec2Model ----
(***************************************************************************)
(* Model of CTFd/__init__.py: the application bootstrap (create_app), the  *)
(* version gate with its interactive confirmation (confirm_upgrade,        *)
(* run_upgrade) and the theme-aware template loader (ThemeLoader).         *)
(*                                                                         *)
(* Python strings are modelled as sequences of one-character strings, so   *)
(* that startswith, slicing, join, lower, strip and the parsing done by    *)
(* StrictVersion are computed and not assumed.  A falsy configuration      *)
(* value (None or the empty string) is the empty sequence.                 *)
(***************************************************************************)
EXTENDS Integers, Sequences, FiniteSets, TLC

VARIABLES
    pc,                 \* position of the running process inside create_app
    run,                \* number of the current process start (1-based)
    driver,             \* url.drivername kind: "sqlite" or "mysql"
    running,            \* the __version__ of the build that runs
    isatty,             \* sys.stdin.isatty() of the current process
    cfg_version,        \* configuration store, key 'ctf_version'
    cfg_theme,          \* configuration store, key 'ctf_theme'
    tables,             \* TRUE when the model tables exist in the database
    ledger,             \* migration ledger: last applied revision, 0 = none
    version,            \* local variable `version` of create_app (line 146)
    confirmed,          \* result of confirm_upgrade(): "none", "yes", "no"
    answer,             \* text read by input() in this process, if any
    prompts,            \* number of times the prompt was issued in this process
    exitStatus,         \* -1 while the process lives, else its exit status
    failedAt,           \* where an exception left create_app, "" if nowhere
    startVersion,       \* cfg_version as it was when this process started
    stepsApplied,       \* migration steps applied by this process
    stepsUnconfirmed,   \* of those, the ones applied before confirm_upgrade returned True
    setVersionCalls,    \* number of set_config('ctf_version', ...) calls of this process
    path,               \* branch taken at the version gate: "none", "upgrade", "fresh", "current"
    prev,               \* how the previous process ended and the version it started from
    blueprints,         \* TRUE when the blueprints are registered
    handlers,           \* error codes that have a registered handler
    plugins,            \* number of init_plugins(app) calls of this process
    overriden_templates,\* ThemeLoader.overriden_templates
    last                \* outcome of the last ThemeLoader.get_source call

vars == <<pc, run, driver, running, isatty, cfg_version, cfg_theme, tables, ledger,
          version, confirmed, answer, prompts, exitStatus, failedAt,
          startVersion, stepsApplied, stepsUnconfirmed, setVersionCalls,
          path, prev, blueprints, handlers, plugins, overriden_templates, last>>

fixed    == <<driver, running>>
dbVars   == <<fixed, cfg_version, cfg_theme, tables, ledger>>
gateVars == <<version, confirmed, answer, prompts, path>>
histVars == <<startVersion, stepsApplied, stepsUnconfirmed, setVersionCalls, prev>>
appVars  == <<blueprints, handlers, plugins, overriden_templates, last>>

----------------------------------------------------------------------------
\* Bounds of the model

MaxRuns == 2
Latest == 2
MaxAnswerLen == 2

----------------------------------------------------------------------------
\* Strings

Falsy == <<>>

Truthy(s) == s # Falsy

startswith(s, p) == Len(s) >= Len(p) /\ SubSeq(s, 1, Len(p)) = p

SliceFrom(s, n) == SubSeq(s, n + 1, Len(s))

RECURSIVE join(_, _)
join(sep, parts) ==
    IF parts = <<>> THEN <<>>
    ELSE IF Len(parts) = 1 THEN Head(parts)
    ELSE Head(parts) \o sep \o join(sep, Tail(parts))

LowerChar(c) ==
    CASE c = "Y" -> "y"
      [] c = "N" -> "n"
      [] OTHER -> c

lower(s) == [i \in 1..Len(s) |-> LowerChar(s[i])]

IsSpace(c) == c = " "

RECURSIVE lstrip(_)
lstrip(s) == IF s # <<>> /\ IsSpace(Head(s)) THEN lstrip(Tail(s)) ELSE s

RECURSIVE rstrip(_)
rstrip(s) ==
    IF s # <<>> /\ IsSpace(s[Len(s)]) THEN rstrip(SubSeq(s, 1, Len(s) - 1)) ELSE s

strip(s) == rstrip(lstrip(s))

----------------------------------------------------------------------------
\* Versions: StrictVersion(version) < StrictVersion(__version__)

DigitVal(c) ==
    CASE c = "0" -> 0 [] c = "1" -> 1 [] c = "2" -> 2 [] c = "3" -> 3
      [] c = "4" -> 4 [] c = "5" -> 5 [] c = "6" -> 6 [] c = "7" -> 7
      [] c = "8" -> 8 [] c = "9" -> 9

RECURSIVE int(_)
int(digits) ==
    IF digits = <<>> THEN 0
    ELSE 10 * int(SubSeq(digits, 1, Len(digits) - 1)) + DigitVal(digits[Len(digits)])

RECURSIVE split(_, _)
split(s, sep) ==
    IF \E i \in 1..Len(s) : s[i] = sep
    THEN LET i == CHOOSE k \in 1..Len(s) :
                      s[k] = sep /\ \A j \in 1..(k - 1) : s[j] # sep
         IN  <<SubSeq(s, 1, i - 1)>> \o split(SubSeq(s, i + 1, Len(s)), sep)
    ELSE <<s>>

\* StrictVersion.parse: (major, minor, patch), patch 0 when not written
StrictVersion(s) ==
    LET p == split(s, ".")
    IN  <<int(p[1]), int(p[2]), IF Len(p) >= 3 THEN int(p[3]) ELSE 0>>

\* StrictVersion.__lt__ on two parsed versions without pre-release tag
TupleLess(a, b) ==
    \/ a[1] < b[1]
    \/ a[1] = b[1] /\ a[2] < b[2]
    \/ a[1] = b[1] /\ a[2] = b[2] /\ a[3] < b[3]

\* the comparison done on the raw strings, character by character
RECURSIVE StringLess(_, _)
StringLess(a, b) ==
    IF b = <<>> THEN FALSE
    ELSE IF a = <<>> THEN TRUE
    ELSE IF Head(a) # Head(b)
         THEN IF Head(a) = "." THEN TRUE
              ELSE IF Head(b) = "." THEN FALSE
              ELSE DigitVal(Head(a)) < DigitVal(Head(b))
    ELSE StringLess(Tail(a), Tail(b))

NeedsUpgradeByString(v, r) == Truthy(v) /\ StringLess(v, r)

\* the test of line 149 with != in place of <
NeedsUpgradeNotEqual(v, r) == Truthy(v) /\ StrictVersion(v) # StrictVersion(r)

\* line 149: version and (StrictVersion(version) < StrictVersion(__version__))
NeedsUpgrade(v, r) ==
    Truthy(v) /\ TupleLess(StrictVersion(v), StrictVersion(r))

__version__ == <<"2", ".", "0", ".", "0">>

v1_9_0  == <<"1", ".", "9", ".", "0">>
v1_10_0 == <<"1", ".", "1", "0", ".", "0">>
v2_0_1  == <<"2", ".", "0", ".", "1">>
v10_0_0 == <<"1", "0", ".", "0", ".", "0">>

\* versions an earlier or later build of the program may have persisted
Versions == {v1_9_0, v1_10_0, __version__, v2_0_1, v10_0_0}

----------------------------------------------------------------------------
\* Template references, themes and sources

slash     == <<"/">>
admin     == <<"a", "d", "m", "i", "n">>
templates == <<"t", "e", "m", "p", "l", "a", "t", "e", "s">>
core      == <<"c", "o", "r", "e">>
admin_    == <<"a", "d", "m", "i", "n", "/">>

n_x             == <<"x">>
n_adminx        == <<"a", "d", "m", "i", "n", "x">>
n_admin_x       == <<"a", "d", "m", "i", "n", "/", "x">>
n_admin_admin_x == <<"a", "d", "m", "i", "n", "/", "a", "d", "m", "i", "n", "/", "x">>

\* template references a caller may request
Names == {n_x, admin, n_adminx, n_admin_x, n_admin_admin_x}

\* template references an extension may override
OverrideNames == {n_x, n_admin_x}

\* theme identifiers the configuration may hold
Themes == {core, admin}

\* source texts an extension may register
Sources == {<<"A">>, <<"B">>}

\* what the filesystem holds at a path
FileContents(p) == <<"#">> \o p

NoOverrides == [n \in {} |-> <<>>]

\* no get_source call was made yet
NoCall == [template |-> <<>>, found |-> FALSE, theme |-> <<>>, overriden |-> FALSE,
           override |-> <<>>,
           out |-> [branch |-> "none", source |-> <<>>, name |-> <<>>, uptodate |-> FALSE,
                    loaderPath |-> <<>>, themeRead |-> FALSE, raised |-> <<>>]]

\* FileSystemLoader.get_source(environment, template), reached through super():
\* the file's contents, or TemplateNotFound(template) with the path it was given
FileSystemLoader_get_source(p, found) ==
    IF found
    THEN [source |-> FileContents(p), name |-> p, uptodate |-> TRUE,
          loaderPath |-> p, raised |-> <<>>]
    ELSE [source |-> <<>>, name |-> <<>>, uptodate |-> FALSE,
          loaderPath |-> p, raised |-> p]

\* the override test placed after the admin test
IsOverridenUnlessAdmin(template, overrides) ==
    template \in DOMAIN overrides /\ ~startswith(template, admin_)

\* line 59: template in self.overriden_templates
IsOverriden(template, overrides) == template \in DOMAIN overrides

\* every leading 'admin/' removed instead of the first six characters
RECURSIVE StripAllAdmin(_)
StripAllAdmin(t) == IF startswith(t, admin_) THEN StripAllAdmin(SliceFrom(t, 6)) ELSE t

AdminPathStripAll(template) == join(slash, <<admin, templates, StripAllAdmin(template)>>)

\* lines 64-65: template[6:] and "/".join(['admin', 'templates', template])
AdminPath(template) == join(slash, <<admin, templates, SliceFrom(template, 6)>>)

\* the 'templates' segment left out
ThemePathNoTemplates(theme, template) == join(slash, <<theme, template>>)

\* line 70: "/".join([theme, 'templates', template])
ThemePath(theme, template) == join(slash, <<theme, templates, template>>)

\* ThemeLoader.get_source(self, environment, template)
\*   overrides: self.overriden_templates, theme: what utils.get_config('ctf_theme')
\*   returns if it is called, found: whether the filesystem holds the rewritten path
get_source(template, overrides, theme, found) ==
    IF IsOverriden(template, overrides)
    THEN [branch |-> "override", source |-> overrides[template], name |-> template,
          uptodate |-> TRUE, loaderPath |-> <<>>, themeRead |-> FALSE, raised |-> <<>>]
    ELSE IF startswith(template, admin_)
    THEN LET r == FileSystemLoader_get_source(AdminPath(template), found)
         IN  [branch |-> "admin", source |-> r.source, name |-> r.name,
              uptodate |-> r.uptodate, loaderPath |-> r.loaderPath,
              themeRead |-> FALSE, raised |-> r.raised]
    ELSE LET r == FileSystemLoader_get_source(ThemePath(theme, template), found)
         IN  [branch |-> "theme", source |-> r.source, name |-> r.name,
              uptodate |-> r.uptodate, loaderPath |-> r.loaderPath,
              themeRead |-> TRUE, raised |-> r.raised]

----------------------------------------------------------------------------
\* The database and the process

Drivers == {"sqlite", "mysql"}

\* answers the operator may type at the prompt
AnswerChars == {"y", "Y", "n", "N", " "}

RECURSIVE StringsUpTo(_)
StringsUpTo(n) ==
    IF n = 0 THEN {<<>>}
    ELSE LET shorter == StringsUpTo(n - 1)
         IN  shorter \cup {Append(s, c) : s \in {t \in shorter : Len(t) = n - 1}, c \in AnswerChars}

\* every short answer over AnswerChars, and the word 'yes'
Answers == StringsUpTo(MaxAnswerLen) \cup {<<"y", "e", "s">>}

\* the first process start of a build whose __version__ is r
Boot(r) ==
    /\ pc = "start"
    /\ run = 1
    /\ driver \in Drivers
    /\ running = r
    /\ isatty \in BOOLEAN
    /\ \/ /\ tables = FALSE             \* a database that was never initialised
          /\ ledger = 0
          /\ cfg_version = Falsy
          /\ cfg_theme = Falsy
       \/ /\ tables = TRUE              \* a database left by an earlier process
          /\ ledger \in 1..Latest
          /\ cfg_version \in Versions \cup {Falsy}
          /\ cfg_theme \in Themes \cup {Falsy}
    /\ version = Falsy
    /\ confirmed = "none"
    /\ answer = <<>>
    /\ prompts = 0
    /\ exitStatus = -1
    /\ failedAt = ""
    /\ startVersion = cfg_version
    /\ stepsApplied = 0
    /\ stepsUnconfirmed = 0
    /\ setVersionCalls = 0
    /\ path = "none"
    /\ prev = [end |-> "none", start |-> <<>>]
    /\ blueprints = FALSE
    /\ handlers = {}
    /\ plugins = 0
    /\ overriden_templates = NoOverrides
    /\ last = NoCall

\* line 25: __version__ = '2.0.0'
Init == Boot(__version__)

----------------------------------------------------------------------------
\* create_app, up to the version gate

\* the effect of a process start on the variables of the process
NewProcess ==
    /\ pc' = "start"
    /\ version' = Falsy
    /\ confirmed' = "none"
    /\ answer' = <<>>
    /\ prompts' = 0
    /\ exitStatus' = -1
    /\ failedAt' = ""
    /\ startVersion' = cfg_version
    /\ stepsApplied' = 0
    /\ stepsUnconfirmed' = 0
    /\ setVersionCalls' = 0
    /\ path' = "none"
    /\ blueprints' = FALSE
    /\ handlers' = {}
    /\ plugins' = 0
    /\ overriden_templates' = NoOverrides
    /\ last' = NoCall

\* an exception leaves create_app: the interpreter ends with status 1
Raise(where) ==
    /\ pc' = "crashed"
    /\ exitStatus' = 1
    /\ failedAt' = where

\* upgrade(): the steps after the ledger's revision are applied in order; the
\* call returns with the ledger at Latest, or raises with the ledger at k
UpgradeTo(k) ==
    /\ k \in ledger..Latest
    /\ ledger' = k
    /\ tables' = (tables \/ k >= 1)
    /\ stepsApplied' = stepsApplied + (k - ledger)
    /\ stepsUnconfirmed' =
           IF confirmed = "yes" THEN stepsUnconfirmed
           ELSE stepsUnconfirmed + (k - ledger)

\* lines 94-113: the application object, the loader, the database connection
CreateApp ==
    /\ pc = "start"
    /\ pc' = "schema"
    /\ UNCHANGED <<run, isatty, dbVars, gateVars, exitStatus, failedAt, histVars, appVars>>

\* line 118 missing: the schema is created and the ledger is left as it was
SchemaSqliteNoStamp ==
    /\ pc = "schema"
    /\ driver = "sqlite"
    /\ tables' = TRUE
    /\ pc' = "gate"
    /\ UNCHANGED <<run, isatty, fixed, cfg_version, cfg_theme, ledger, gateVars, exitStatus,
                   failedAt, histVars, appVars>>

\* the sqlite test of line 116 missing: upgrade() is called as for any driver
SchemaSqliteUpgrades ==
    /\ pc = "schema"
    /\ driver = "sqlite"
    /\ UpgradeTo(Latest)
    /\ pc' = "gate"
    /\ UNCHANGED <<run, isatty, fixed, cfg_version, cfg_theme, gateVars, exitStatus,
                   failedAt, startVersion, setVersionCalls, prev, appVars>>

\* lines 116-118: db.create_all() and stamp()
SchemaSqlite ==
    /\ pc = "schema"
    /\ driver = "sqlite"
    /\ tables' = TRUE
    /\ ledger' = Latest
    /\ pc' = "gate"
    /\ UNCHANGED <<run, isatty, fixed, cfg_version, cfg_theme, gateVars, exitStatus,
                   failedAt, histVars, appVars>>

\* line 122: upgrade() returns
SchemaUpgrade ==
    /\ pc = "schema"
    /\ driver # "sqlite"
    /\ UpgradeTo(Latest)
    /\ pc' = "gate"
    /\ UNCHANGED <<run, isatty, fixed, cfg_version, cfg_theme, gateVars, exitStatus,
                   failedAt, startVersion, setVersionCalls, prev, appVars>>

\* line 122: upgrade() raises
SchemaUpgradeFails ==
    /\ pc = "schema"
    /\ driver # "sqlite"
    /\ \E k \in ledger..Latest : UpgradeTo(k)
    /\ Raise("upgrade")
    /\ UNCHANGED <<run, isatty, fixed, cfg_version, cfg_theme, gateVars,
                   startVersion, setVersionCalls, prev, appVars>>

\* lines 146-149 and 155: version = utils.get_config('ctf_version') and the
\* branch taken on it
VersionGate ==
    /\ pc = "gate"
    /\ version' = cfg_version
    /\ IF NeedsUpgrade(cfg_version, running)
       THEN pc' = "confirm" /\ path' = "upgrade"
       ELSE pc' = "stamp" /\ path' = IF Truthy(cfg_version) THEN "current" ELSE "fresh"
    /\ UNCHANGED <<run, isatty, dbVars, confirmed, answer, prompts, exitStatus,
                   failedAt, histVars, appVars>>

----------------------------------------------------------------------------
\* confirm_upgrade and run_upgrade

\* the test of line 79 with startswith('y') in place of == 'y'
AffirmativePrefix(a) == startswith(strip(lower(a)), <<"y">>)

\* line 79: input('Run database migrations (Y/N)').lower().strip() == 'y'
Affirmative(a) == strip(lower(a)) = <<"y">>

\* the isatty test of line 75 missing: the prompt is issued without a terminal
ConfirmNoTtyPrompts ==
    /\ pc = "confirm"
    /\ ~isatty
    /\ prompts' = prompts + 1
    /\ pc' = "input"
    /\ UNCHANGED <<run, isatty, dbVars, version, confirmed, answer, path, exitStatus,
                   failedAt, histVars, appVars>>

\* lines 75, 84-85: stdin is no terminal, confirm_upgrade returns True
ConfirmNoTty ==
    /\ pc = "confirm"
    /\ ~isatty
    /\ confirmed' = "yes"
    /\ pc' = "run_upgrade"
    /\ UNCHANGED <<run, isatty, dbVars, version, answer, prompts, path, exitStatus,
                   failedAt, histVars, appVars>>

\* lines 75-79: stdin is a terminal, the warning is printed and input() waits
ConfirmPrompt ==
    /\ pc = "confirm"
    /\ isatty
    /\ prompts' = prompts + 1
    /\ pc' = "input"
    /\ UNCHANGED <<run, isatty, dbVars, version, confirmed, answer, path, exitStatus,
                   failedAt, histVars, appVars>>

\* lines 79-83: the operator's line is read and decides the result
ConfirmAnswer(a) ==
    /\ pc = "input"
    /\ answer' = a
    /\ IF Affirmative(a)
       THEN confirmed' = "yes" /\ pc' = "run_upgrade"
       ELSE confirmed' = "no" /\ pc' = "exit"
    /\ UNCHANGED <<run, isatty, dbVars, version, prompts, path, exitStatus,
                   failedAt, histVars, appVars>>

\* line 79: input() raises (end of file on the terminal)
ConfirmInputFails ==
    /\ pc = "input"
    /\ Raise("input")
    /\ UNCHANGED <<run, isatty, dbVars, gateVars, histVars, appVars>>

\* run_upgrade that forgets line 90: the version is not written
RunUpgradeNoStamp ==
    /\ pc = "run_upgrade"
    /\ UpgradeTo(Latest)
    /\ pc' = "stamp"
    /\ UNCHANGED <<run, isatty, fixed, cfg_version, cfg_theme, gateVars, exitStatus,
                   failedAt, startVersion, setVersionCalls, prev, appVars>>

\* lines 88-90: upgrade() returns and set_config('ctf_version', __version__)
RunUpgrade ==
    /\ pc = "run_upgrade"
    /\ UpgradeTo(Latest)
    /\ cfg_version' = running
    /\ setVersionCalls' = setVersionCalls + 1
    /\ pc' = "stamp"
    /\ UNCHANGED <<run, isatty, fixed, cfg_theme, gateVars, exitStatus, failedAt,
                   startVersion, prev, appVars>>

\* run_upgrade with lines 89 and 90 swapped: the version is written, then upgrade() raises
RunUpgradeFailsStamped ==
    /\ pc = "run_upgrade"
    /\ cfg_version' = running
    /\ setVersionCalls' = setVersionCalls + 1
    /\ \E k \in ledger..Latest : UpgradeTo(k)
    /\ Raise("run_upgrade")
    /\ UNCHANGED <<run, isatty, fixed, cfg_theme, gateVars, startVersion, prev, appVars>>

\* line 89: upgrade() raises, line 90 is not reached
RunUpgradeFails ==
    /\ pc = "run_upgrade"
    /\ \E k \in ledger..Latest : UpgradeTo(k)
    /\ Raise("run_upgrade")
    /\ UNCHANGED <<run, isatty, fixed, cfg_version, cfg_theme, gateVars,
                   startVersion, setVersionCalls, prev, appVars>>

\* lines 152-153 missing: a declined upgrade falls through to line 155
ExitFallsThrough ==
    /\ pc = "exit"
    /\ pc' = "stamp"
    /\ UNCHANGED <<run, isatty, dbVars, gateVars, exitStatus, failedAt, histVars, appVars>>

\* line 153: exit(), which raises SystemExit(None): the process ends with status 0
Exit ==
    /\ pc = "exit"
    /\ pc' = "exited"
    /\ exitStatus' = 0
    /\ UNCHANGED <<run, isatty, dbVars, gateVars, failedAt, histVars, appVars>>

----------------------------------------------------------------------------
\* create_app, after the version gate

\* lines 155-156 missing: a fresh install is not stamped
StampVersionSkipped ==
    /\ pc = "stamp"
    /\ pc' = "theme"
    /\ UNCHANGED <<run, isatty, dbVars, gateVars, exitStatus, failedAt, histVars, appVars>>

\* lines 155-156: if not version: set_config('ctf_version', __version__)
StampVersion ==
    /\ pc = "stamp"
    /\ IF ~Truthy(version)
       THEN cfg_version' = running /\ setVersionCalls' = setVersionCalls + 1
       ELSE UNCHANGED <<cfg_version, setVersionCalls>>
    /\ pc' = "theme"
    /\ UNCHANGED <<run, isatty, fixed, cfg_theme, tables, ledger, gateVars, exitStatus,
                   failedAt, startVersion, stepsApplied, stepsUnconfirmed, prev, appVars>>

\* the test of line 158 missing: 'core' is written over a configured theme
DefaultThemeOverwrites ==
    /\ pc = "theme"
    /\ cfg_theme' = core
    /\ pc' = "blueprints"
    /\ UNCHANGED <<run, isatty, fixed, cfg_version, tables, ledger, gateVars,
                   exitStatus, failedAt, histVars, appVars>>

\* lines 158-159: if not get_config('ctf_theme'): set_config('ctf_theme', 'core')
DefaultTheme ==
    /\ pc = "theme"
    /\ cfg_theme' = IF ~Truthy(cfg_theme) THEN core ELSE cfg_theme
    /\ pc' = "blueprints"
    /\ UNCHANGED <<run, isatty, fixed, cfg_version, tables, ledger, gateVars,
                   exitStatus, failedAt, histVars, appVars>>

\* lines 161-188: request processors, template filters and globals, blueprints
RegisterBlueprints ==
    /\ pc = "blueprints"
    /\ blueprints' = TRUE
    /\ pc' = "handlers"
    /\ UNCHANGED <<run, isatty, dbVars, gateVars, exitStatus, failedAt, histVars,
                   handlers, plugins, overriden_templates, last>>

\* lines 190-193 placed after line 195: no handler is registered at this point
RegisterErrorHandlersLate ==
    /\ pc = "handlers"
    /\ pc' = "plugins"
    /\ UNCHANGED <<run, isatty, dbVars, gateVars, exitStatus, failedAt, histVars, appVars>>

\* lines 190-193: the four error handlers
RegisterErrorHandlers ==
    /\ pc = "handlers"
    /\ handlers' = handlers \cup {404, 403, 500, 502}
    /\ pc' = "plugins"
    /\ UNCHANGED <<run, isatty, dbVars, gateVars, exitStatus, failedAt, histVars,
                   blueprints, plugins, overriden_templates, last>>

\* the override maps an extension may leave behind
OverrideMaps == UNION {[D -> Sources] : D \in SUBSET OverrideNames}

\* line 195: init_plugins(app); the extensions loaded may register overrides
InitPlugins ==
    /\ pc = "plugins"
    /\ plugins' = plugins + 1
    /\ overriden_templates' \in OverrideMaps
    /\ pc' = "return"
    /\ UNCHANGED <<run, isatty, dbVars, gateVars, exitStatus, failedAt, histVars,
                   blueprints, handlers, last>>

\* line 197: return app
ReturnApp ==
    /\ pc = "return"
    /\ pc' = "ready"
    /\ UNCHANGED <<run, isatty, dbVars, gateVars, exitStatus, failedAt, histVars, appVars>>

----------------------------------------------------------------------------
\* The application in service

\* the theme the previous resolution saw, kept between calls
ActiveThemeCached == IF last.out.themeRead THEN last.theme ELSE cfg_theme

\* line 69: utils.get_config('ctf_theme'), evaluated by the call itself
ActiveTheme == cfg_theme

\* a template is requested from the loader: ThemeLoader.get_source
Resolve(template, found) ==
    /\ pc = "ready"
    /\ last' = [template |-> template, found |-> found, theme |-> cfg_theme,
                overriden |-> template \in DOMAIN overriden_templates,
                override |-> IF template \in DOMAIN overriden_templates
                             THEN overriden_templates[template] ELSE <<>>,
                out |-> get_source(template, overriden_templates, ActiveTheme, found)]
    /\ UNCHANGED <<pc, run, isatty, dbVars, gateVars, exitStatus, failedAt, histVars,
                   blueprints, handlers, plugins, overriden_templates>>

\* the active theme is changed in the configuration store
SetTheme(theme) ==
    /\ pc = "ready"
    /\ cfg_theme' = theme
    /\ UNCHANGED <<pc, run, isatty, fixed, cfg_version, tables, ledger, gateVars,
                   exitStatus, failedAt, histVars, appVars>>

\* an extension registers an override: overriden_templates[template] = html
OverrideTemplate(template, html) ==
    /\ pc = "ready"
    /\ overriden_templates' =
           [n \in DOMAIN overriden_templates \cup {template} |->
               IF n = template THEN html ELSE overriden_templates[n]]
    /\ UNCHANGED <<pc, run, isatty, dbVars, gateVars, exitStatus, failedAt, histVars,
                   blueprints, handlers, plugins, last>>

\* the process is started again on the same database
Restart ==
    /\ pc \in {"ready", "exited", "crashed"}
    /\ run < MaxRuns
    /\ run' = run + 1
    /\ isatty' \in BOOLEAN
    /\ prev' = [end |-> IF pc = "crashed" THEN failedAt ELSE pc, start |-> startVersion]
    /\ NewProcess
    /\ UNCHANGED dbVars

Next ==
    \/ CreateApp
    \/ SchemaSqlite
    \/ SchemaUpgrade
    \/ SchemaUpgradeFails
    \/ VersionGate
    \/ ConfirmNoTty
    \/ ConfirmPrompt
    \/ \E a \in Answers : ConfirmAnswer(a)
    \/ ConfirmInputFails
    \/ RunUpgrade
    \/ RunUpgradeFails
    \/ Exit
    \/ StampVersion
    \/ DefaultTheme
    \/ RegisterBlueprints
    \/ RegisterErrorHandlers
    \/ InitPlugins
    \/ ReturnApp
    \/ \E n \in Names, f \in BOOLEAN : Resolve(n, f)
    \/ \E t \in Themes : SetTheme(t)
    \/ \E n \in OverrideNames, h \in Sources : OverrideTemplate(n, h)
    \/ Restart

Spec == Init /\ [][Next]_vars

----------------------------------------------------------------------------
\* Properties of the bootstrap

Lower(v) == NeedsUpgrade(v, running)

\* C1: whenever create_app has returned the handle, 'ctf_version' is present and
\* not less than __version__; if it was absent or lower when the process started
\* it equals __version__; and neither a declined upgrade nor a raised migration
\* call lies behind a returned handle.
C1_ReadyImpliesVersionCurrent ==
    pc = "ready" =>
        /\ Truthy(cfg_version)
        /\ ~TupleLess(StrictVersion(cfg_version), StrictVersion(running))
        /\ (~Truthy(startVersion) \/ Lower(startVersion)) => cfg_version = running
        /\ confirmed # "no"
        /\ failedAt = ""
        /\ exitStatus = -1

C1_Witness ==
    /\ pc = "ready"
    /\ startVersion = v1_9_0
    /\ cfg_version = running
    /\ stepsApplied > 0

\* C2: in a run that starts with a lower persisted version and a terminal
\* attached, no migration step is applied before confirm_upgrade returned True,
\* and a run that was declined has applied no migration step.
C2_NoMigrationBeforeConfirmation ==
    (Lower(startVersion) /\ isatty) =>
        /\ stepsUnconfirmed = 0
        /\ confirmed = "no" => stepsApplied = 0

\* C3: after the operator declined, the process is on its way out or gone, the
\* handle is not returned, and 'ctf_version' is what it was at process start,
\* set_config('ctf_version', ...) never having been called.
C3_DeclinedLeavesVersion ==
    confirmed = "no" =>
        /\ pc \in {"exit", "exited"}
        /\ pc = "exit" => ENABLED Exit
        /\ isatty /\ Lower(startVersion)
        /\ cfg_version = startVersion
        /\ setVersionCalls = 0

C3_Witness ==
    /\ pc = "exited"
    /\ answer = <<"N">>
    /\ startVersion = v1_9_0
    /\ cfg_version = v1_9_0

\* C4: the process never ends with exit status 0.
C4_ExitStatusNonZero == exitStatus # 0

\* C5: when upgrade() raised inside run_upgrade the process is gone without a
\* handle, 'ctf_version' is what it was before the attempt and still lower than
\* __version__; the next process starts from that same version and, when it
\* reaches the version gate, takes the upgrade path again.
C5_FailedUpgradeLeavesVersion ==
    /\ failedAt = "run_upgrade" =>
           /\ pc = "crashed"
           /\ cfg_version = startVersion
           /\ setVersionCalls = 0
           /\ Lower(cfg_version)
    /\ prev.end = "run_upgrade" =>
           /\ startVersion = prev.start
           /\ Lower(startVersion)
           /\ path \in {"none", "upgrade"}
           /\ pc \notin {"stamp", "theme", "blueprints", "handlers", "plugins", "return"}
                  \/ confirmed = "yes"

C5_Witness ==
    /\ prev.end = "run_upgrade"
    /\ prev.start = v1_9_0
    /\ path = "upgrade"
    /\ pc = "run_upgrade"

\* C6: in a run that starts with no persisted version the prompt is never
\* issued and neither confirm_upgrade nor run_upgrade is entered, with or
\* without a terminal; past the version gate the run neither exits nor raises,
\* and once the gate's stamp is done 'ctf_version' equals __version__.
C6_FreshInstallStamped ==
    ~Truthy(startVersion) =>
        /\ prompts = 0
        /\ confirmed = "none"
        /\ answer = <<>>
        /\ pc \notin {"confirm", "input", "run_upgrade", "exit", "exited"}
        /\ path \in {"none", "fresh"}
        /\ path = "fresh" => pc # "crashed"
        /\ pc \in {"theme", "blueprints", "handlers", "plugins", "return", "ready"}
               => cfg_version = running /\ setVersionCalls = 1

C6_Witness ==
    /\ ~Truthy(startVersion)
    /\ isatty
    /\ pc = "ready"
    /\ cfg_version = running

----------------------------------------------------------------------------
\* The version gate for any build

\* the first process start of any build
GateInit == \E r \in Versions : Boot(r)

GateNext ==
    \/ CreateApp
    \/ SchemaSqlite
    \/ SchemaUpgrade
    \/ SchemaUpgradeFails
    \/ VersionGate

GateSpec == GateInit /\ [][GateNext]_vars

\* the three numbers each version string of the model stands for
Components(v) ==
    CASE v = v1_9_0 -> <<1, 9, 0>>
      [] v = v1_10_0 -> <<1, 10, 0>>
      [] v = __version__ -> <<2, 0, 0>>
      [] v = v2_0_1 -> <<2, 0, 1>>
      [] v = v10_0_0 -> <<10, 0, 0>>

StrictlyLess(p, r) ==
    LET a == Components(p)
        b == Components(r)
    IN  \E i \in 1..3 : a[i] < b[i] /\ \A j \in 1..(i - 1) : a[j] = b[j]

\* C7: once the version gate has decided, the upgrade path is the one taken if
\* and only if the persisted version is present and strictly less than the
\* running version, major first, then minor, then patch, compared as numbers.
C7_GateDecision ==
    path # "none" =>
        /\ version = cfg_version \/ pc \notin {"confirm", "stamp"}
        /\ (path = "upgrade") <=> (Truthy(version) /\ StrictlyLess(version, running))
        /\ (pc = "confirm") <=> (path = "upgrade")

C7_Witness ==
    /\ path = "upgrade"
    /\ pc = "confirm"
    /\ version = v1_9_0
    /\ running = __version__

----------------------------------------------------------------------------
\* Properties of the template loader

Called == last.out.branch # "none"

admin_templates_ == <<"a", "d", "m", "i", "n", "/", "t", "e", "m", "p", "l", "a", "t", "e", "s", "/">>

\* C8: a get_source call for a reference that is a key of the override map
\* returns the registered source, with no call of the filesystem loader and no
\* read of the active theme, also for a reference that starts with 'admin/' and
\* for one the filesystem holds under the active theme.
C8_OverridePrecedence ==
    (Called /\ last.overriden) =>
        /\ last.out.branch = "override"
        /\ last.out.source = last.override
        /\ last.out.name = last.template
        /\ last.out.loaderPath = <<>>
        /\ ~last.out.themeRead
        /\ last.out.raised = <<>>

C8_Witness ==
    /\ last.template = n_admin_x
    /\ last.overriden
    /\ last.found
    /\ last.out.source = <<"B">>
    /\ overriden_templates[n_admin_x] = <<"B">>

\* C9: a get_source call for a reference that is no key of the override map and
\* does not start with 'admin/' calls the filesystem loader with exactly
\* '<theme>/templates/<reference>', the theme being the active one.
C9_ThemeRule ==
    (Called /\ ~last.overriden /\ ~startswith(last.template, admin_)) =>
        /\ last.out.branch = "theme"
        /\ last.out.loaderPath = last.theme \o <<"/">> \o templates \o <<"/">> \o last.template
        /\ last.out.themeRead

C9_Witness ==
    /\ last.template = n_adminx
    /\ ~last.overriden
    /\ last.theme = core
    /\ last.out.loaderPath =
           <<"c", "o", "r", "e", "/", "t", "e", "m", "p", "l", "a", "t", "e", "s", "/",
             "a", "d", "m", "i", "n", "x">>

\* C10: a get_source call for a reference that starts with 'admin/' and is no
\* key of the override map calls the filesystem loader with 'admin/templates/'
\* followed by the reference without its first 'admin/' and no more; the theme
\* is not read and the outcome is the same under every theme.
C10_AdminRule ==
    (Called /\ ~last.overriden /\ startswith(last.template, admin_)) =>
        /\ last.out.branch = "admin"
        /\ last.out.loaderPath =
               admin_templates_ \o SubSeq(last.template, 7, Len(last.template))
        /\ admin_ \o SubSeq(last.out.loaderPath, 17, Len(last.out.loaderPath)) = last.template
        /\ ~last.out.themeRead
        /\ \A t \in Themes :
               get_source(last.template, NoOverrides, t, last.found) = last.out

C10_Witness ==
    /\ last.template = n_admin_admin_x
    /\ ~last.overriden
    /\ last.theme = core
    /\ last.out.loaderPath =
           <<"a", "d", "m", "i", "n", "/", "t", "e", "m", "p", "l", "a", "t", "e", "s", "/",
             "a", "d", "m", "i", "n", "/", "x">>

\* C11: a get_source call that ends in TemplateNotFound carries the reference
\* the caller asked for, not the rewritten path.
C11_NotFoundCarriesReference ==
    (Called /\ last.out.raised # <<>>) => last.out.raised = last.template

\* C12: every get_source call for a reference that is no key of the override
\* map and does not start with 'admin/' asks the filesystem loader for
\* '<theme>/templates/<reference>' with the theme the configuration holds at
\* the moment of the call, whatever theme earlier calls saw.
C12_ThemeReadPerCall ==
    [][(last' # last /\ last'.out.branch # "none"
           /\ ~last'.overriden /\ ~startswith(last'.template, admin_))
          => /\ last'.out.loaderPath =
                    cfg_theme \o <<"/">> \o templates \o <<"/">> \o last'.template
             /\ last'.out.themeRead
             /\ last'.theme = cfg_theme
             /\ cfg_theme' = cfg_theme]_vars

\* The first process on a database that was never initialised (all Latest
\* steps applied by it) starts serving with the default theme 'core'; a call
\* that saw 'admin' there came after a theme change in the same process.
C12_Witness ==
    /\ run = 1
    /\ driver = "mysql"
    /\ stepsApplied = Latest
    /\ pc = "ready"
    /\ last.template = n_x
    /\ last.theme = admin
    /\ last.out.loaderPath =
           <<"a", "d", "m", "i", "n", "/", "t", "e", "m", "p", "l", "a", "t", "e", "s", "/", "x">>

----------------------------------------------------------------------------
\* Further properties of the bootstrap

AfterGateStamp == pc \in {"theme", "blueprints", "handlers", "plugins", "return", "ready"}

\* C13: the prompt is issued at most once per process, and only when the
\* persisted version is present and lower than __version__ and a terminal is
\* attached; with a lower version and no terminal the process never prompts nor
\* waits for input, confirm_upgrade returns True, and unless upgrade() raises
\* the run goes on with 'ctf_version' equal to __version__.
C13_PromptReachability ==
    /\ prompts <= 1
    /\ prompts = 1 => Truthy(startVersion) /\ Lower(startVersion) /\ isatty /\ path = "upgrade"
    /\ (Lower(startVersion) /\ ~isatty) =>
           /\ prompts = 0
           /\ answer = <<>>
           /\ pc \notin {"input", "exit", "exited"}
           /\ confirmed \in {"none", "yes"}
           /\ (path = "upgrade" /\ pc # "confirm") => confirmed = "yes"
           /\ pc = "crashed" => failedAt \in {"upgrade", "run_upgrade"}
           /\ (pc = "stamp" \/ AfterGateStamp) => cfg_version = running /\ setVersionCalls = 1

C13_Witness ==
    /\ ~isatty
    /\ startVersion = v1_9_0
    /\ prompts = 0
    /\ confirmed = "yes"
    /\ pc = "ready"
    /\ cfg_version = running

\* C14: on sqlite, every process that is past lines 117-118 has the model
\* tables in place and the ledger at the latest revision, and no exception came
\* from there; a process started on a database an earlier process has already
\* put through these lines finds it so and leaves it so.
C14_EmbeddedIdempotent ==
    driver = "sqlite" =>
        /\ pc \notin {"start", "schema"} => tables /\ ledger = Latest
        /\ run > 1 => tables /\ ledger = Latest
        /\ failedAt \notin {"upgrade"}
        /\ pc = "crashed" => failedAt \in {"input", "run_upgrade"}

C14_Witness ==
    /\ driver = "sqlite"
    /\ run = 2
    /\ pc = "gate"
    /\ tables
    /\ ledger = Latest

AllHandlers == {404, 403, 500, 502}

\* C15: init_plugins is invoked once in a run that returns the handle, after
\* the version gate, the blueprints and the four error handlers, with nothing
\* but the return after it; a run that exits or raises has not invoked it.
C15_PluginHookLast ==
    /\ plugins <= 1
    /\ pc = "ready" => plugins = 1
    /\ plugins = 1 =>
           /\ pc \in {"return", "ready"}
           /\ path \in {"upgrade", "fresh", "current"}
           /\ path = "upgrade" => confirmed = "yes" /\ cfg_version = running
           /\ blueprints
           /\ handlers = AllHandlers
    /\ pc = "return" => plugins = 1
    /\ pc \in {"exit", "exited", "crashed"} => plugins = 0

C15_Witness ==
    /\ pc = "return"
    /\ plugins = 1
    /\ handlers = {404, 403, 500, 502}
    /\ blueprints
    /\ path = "upgrade"

\* C16: the theme step writes 'core' when no theme is configured and leaves a
\* configured theme as it is; whenever the handle has been returned a theme is
\* configured.
C16_DefaultTheme ==
    /\ [](pc = "ready" => Truthy(cfg_theme))
    /\ [][pc = "theme" =>
              cfg_theme' = IF cfg_theme = <<>> THEN <<"c", "o", "r", "e">> ELSE cfg_theme]_vars

\* the first process on a database that was never initialised, past the theme step
C16_Witness ==
    /\ run = 1
    /\ driver = "mysql"
    /\ stepsApplied = Latest
    /\ ~Truthy(startVersion)
    /\ pc = "blueprints"
    /\ cfg_theme = core

\* C18: in a run that starts with a persisted version equal to or greater than
\* __version__, confirm_upgrade and run_upgrade are not entered, the version is
\* never written and stays what it was, and past the version gate the run
\* neither exits nor raises on its way to returning the handle.
C18_DowngradeUntouched ==
    (Truthy(startVersion) /\ ~StrictlyLess(startVersion, running)) =>
        /\ prompts = 0
        /\ confirmed = "none"
        /\ pc \notin {"confirm", "input", "run_upgrade", "exit", "exited"}
        /\ path \in {"none", "current"}
        /\ setVersionCalls = 0
        /\ cfg_version = startVersion
        /\ path = "current" => pc # "crashed"
        /\ pc = "crashed" => failedAt = "upgrade"

C18_Witness ==
    /\ startVersion = v10_0_0
    /\ cfg_version = v10_0_0
    /\ pc = "ready"
    /\ path = "current"

\* C19: on sqlite no process applies a migration step, on any path; when
\* run_upgrade is entered the ledger is already at the latest revision, and
\* its upgrade() call applies nothing.
C19_EmbeddedNoReplay ==
    driver = "sqlite" =>
        /\ stepsApplied = 0
        /\ stepsUnconfirmed = 0
        /\ pc \in {"gate", "confirm", "input", "run_upgrade", "stamp"} => ledger = Latest

C19_Witness ==
    /\ driver = "sqlite"
    /\ isatty
    /\ startVersion = v1_9_0
    /\ path = "upgrade"
    /\ confirmed = "yes"
    /\ pc = "stamp"
    /\ setVersionCalls = 1
    /\ stepsApplied = 0

\* an answer that is one 'y' or 'Y' with nothing but blanks around it
SaysYes(a) ==
    \E i \in 1..Len(a) :
        /\ a[i] \in {"y", "Y"}
        /\ \A j \in 1..Len(a) : j # i => a[j] = " "

\* C20: with a terminal attached, confirm_upgrade returns True exactly for an
\* answer that is 'y' once lower-cased and stripped; after any other answer the
\* process only exits, after True it only goes on to run_upgrade and beyond,
\* and no migration step follows a decline.
C20_ConfirmationDecision ==
    (isatty /\ confirmed # "none") =>
        /\ prompts = 1
        /\ (confirmed = "yes") <=> SaysYes(answer)
        /\ (confirmed = "no") <=> ~SaysYes(answer)
        /\ confirmed = "no" => pc \in {"exit", "exited"} /\ setVersionCalls = 0
        /\ confirmed = "yes" =>
               \/ pc = "run_upgrade"
               \/ pc = "crashed" /\ failedAt = "run_upgrade"
               \/ (pc = "stamp" \/ AfterGateStamp) /\ cfg_version = running

C20_Witness ==
    /\ isatty
    /\ confirmed = "no"
    /\ answer = <<"y", "e", "s">>
    /\ pc = "exited"

====
